---- MODULE Spec2Model ----
(***************************************************************************)
(* Model of the browser-query orchestration service: the agent graph       *)
(* (app/graph), the tool dispatcher (app/tools), and the two result paths  *)
(* of AgentService (app/services/agent_service.py).                        *)
(*                                                                         *)
(* Texts are sequences of tokens, so that prefix tests (startswith) and    *)
(* substring splits are computed and not assumed.  The graph state is a    *)
(* function whose DOMAIN is the set of keys present in the AgentState      *)
(* dict: state["k"] on a missing key raises KeyError, state.get("k")       *)
(* yields None.                                                            *)
(***************************************************************************)
EXTENDS Integers, Sequences, FiniteSets, TLC

VARIABLES
    mode,            \* who drives the graph: "execute_query", "stream_query", or a
                     \* direct caller of the compiled graph: "ainvoke", "astream_events"
    state,           \* AgentState: the keys present and their values
    pc,              \* position of the run in the graph / the caller
    exc,             \* str(e) of the exception that left the graph, "" if none
    tool_messages,   \* local list of GraphNodes.tools
    remote,          \* set of session ids alive on the backend
    deleted,         \* sequence of session ids delete_session was attempted on
    hist,            \* history of the run: counters and the replies of the model
    step_number,     \* stream_query local
    current_answer,  \* stream_query local
    feed,            \* internal events delivered by astream_events so far
    sse,             \* events yielded by stream_query so far
    response         \* the QueryResponses execute_query has returned, in order

vars == <<mode, state, pc, exc, tool_messages, remote, deleted,
          hist, step_number, current_answer, feed, sse, response>>

(***************************************************************************)
(* Bounds                                                                  *)
(***************************************************************************)
MaxIterBound == 3      \* largest max_iterations a caller supplies
MaxFeed == 5           \* longest internal feed in the translator-only specification
MaxLog == 4            \* longest message log in the extractor-only specification
PairMaxIter == 2       \* max_iterations of each of two concurrent runs
MaxCalls == 2          \* longest batch in the dispatcher-only specification

\* get_page_content's truncation threshold
TruncateAt == 50000

\* Python's None where a text is optional (texts are token sequences)
None == <<"<None>">>
NoUpdate == [k \in {} |-> 0]

(***************************************************************************)
(* Messages and tool calls                                                 *)
(***************************************************************************)
Msg(t, c, tc, id, n) ==
    [type |-> t, content |-> c, tool_calls |-> tc, tool_call_id |-> id, name |-> n]

HumanMessage(c) == Msg("human", c, <<>>, <<>>, "")
SystemMessage(c) == Msg("system", c, <<>>, <<>>, "")
AIMessage(c, tc) == Msg("ai", c, tc, <<>>, "")
ToolMessage(c, id, n) == Msg("tool", c, <<>>, id, n)

ToolCall(n, a, id) == [name |-> n, args |-> a, id |-> id]

\* startswith("Error") on a text
StartsWithError(text) == Len(text) > 0 /\ text[1] = "Error"

Last(s) == s[Len(s)]

(***************************************************************************)
(* Python dict semantics of the AgentState                                 *)
(***************************************************************************)
Has(st, k) == k \in DOMAIN st

\* state.get(k): None when the key is missing
Get(st, k) == IF Has(st, k) THEN st[k] ELSE None

\* truthiness of an Optional[str] value
Truthy(v) == v # None /\ v # <<>>

\* str(n) for the small numbers that occur in texts
Str(n) == <<"0", "1", "2", "3", "4", "5", "6", "7", "8", "9">>[n + 1]

\* variant of Merge: messages is a last-value key like the others
Merge_last_value(st, upd) ==
    [k \in DOMAIN st \cup DOMAIN upd |-> IF k \in DOMAIN upd THEN upd[k] ELSE st[k]]

\* LangGraph's merge of a node's partial update into the state: every key is
\* last-value, messages is reduced with add_messages (append).
Merge(st, upd) ==
    [k \in DOMAIN st \cup DOMAIN upd |->
        IF k \in DOMAIN upd
        THEN IF k = "messages" /\ k \in DOMAIN st THEN st[k] \o upd[k] ELSE upd[k]
        ELSE st[k]]

(***************************************************************************)
(* Inputs: what the model and the backend may answer                       *)
(***************************************************************************)
AgentId == "agent-1"
SessionIds == {"s1"}

\* outcome of one remote call, as browser_client raises or returns it
Outcomes == {"ok", "http_error", "connect_error", "timeout"}

NavArgs == [session_id |-> "s1", url |-> "u1"]
NavArgsNoSession == [url |-> "u1"]
NavArgsPageIdUrl == [session_id |-> "s1", url |-> "u?page_id:x"]
JsArgs == [session_id |-> "s1", page_id |-> "p1", script |-> "sc"]
DelArgs == [session_id |-> "s1"]
CreateArgs == [agent_id |-> "agent-1"]

\* the tool-call batches the model may request in pass p (ids are unique per call)
Batches(p) ==
    { <<ToolCall("navigate", NavArgs, <<p, 1>>)>>,
      <<ToolCall("execute_js", JsArgs, <<p, 1>>)>>,
      <<ToolCall("navigate", NavArgs, <<p, 1>>), ToolCall("execute_js", JsArgs, <<p, 2>>)>>,
      <<ToolCall("delete_session", DelArgs, <<p, 1>>)>>,
      <<ToolCall("delete_session", DelArgs, <<p, 1>>), ToolCall("navigate", NavArgs, <<p, 2>>)>>,
      <<ToolCall("navigate", NavArgsNoSession, <<p, 1>>)>>,
      <<ToolCall("create_session", CreateArgs, <<p, 1>>),
        ToolCall("close_session", DelArgs, <<p, 2>>)>> }

\* what llm.ainvoke may return in pass p: a final text, or tool calls with or
\* without accompanying text
LLMResponses(p) ==
    { AIMessage(<<"answer", Str(p)>>, <<>>) }
    \cup { AIMessage(<<>>, b) : b \in Batches(p) }
    \cup { AIMessage(<<"let me look">>, <<ToolCall("navigate", NavArgsPageIdUrl, <<p, 1>>)>>) }

(***************************************************************************)
(* Entry points: the initial AgentState handed to the compiled graph       *)
(***************************************************************************)
Query == <<"Agent ID:", AgentId, "Task:", "q">>

\* execute_query and stream_query pass messages only
FacadeInputs == [messages |-> <<HumanMessage(Query)>>]

\* a caller of the graph returned by build_agent that fills in the AgentState
\* fields the nodes read
GraphInputs ==
    { [messages |-> <<HumanMessage(Query)>>, agent_id |-> AgentId] }
    \cup { [messages |-> <<HumanMessage(Query)>>, agent_id |-> AgentId, max_iterations |-> m] :
            m \in 1..MaxIterBound }

(***************************************************************************)
(* Tool dispatcher (app/tools/browser_tools.py)                            *)
(***************************************************************************)
\* variant of tools_by_name: every tool function create_browser_tools defines
\* is returned, the session tools included
tools_by_name_all_defined ==
    {"create_session", "navigate", "get_page_content", "execute_js", "search_text",
     "capture_screenshot", "close_page", "close_session", "delete_session",
     "analyze_page", "get_accessibility_tree"}

\* the list create_browser_tools returns: the names GraphNodes.tools_by_name knows
tools_by_name ==
    {"navigate", "analyze_page", "get_accessibility_tree", "get_page_content",
     "execute_js", "search_text", "capture_screenshot", "close_page"}

\* the parameters of each @tool function that have no default
RequiredArgs(name) ==
    IF name = "navigate" THEN {"session_id", "url"}
    ELSE IF name = "execute_js" THEN {"session_id", "page_id", "script"}
    ELSE IF name = "search_text" THEN {"session_id", "page_id", "query"}
    ELSE IF name = "create_session" THEN {"agent_id"}
    ELSE IF name \in {"close_session", "delete_session"} THEN {"session_id"}
    ELSE {"session_id", "page_id"}

\* tool_fn.ainvoke validates the arguments against the tool's schema before the
\* function body (and its try/except) runs
ArgsValid(name, args) == RequiredArgs(name) \subseteq DOMAIN args

\* the three except arms every tool function has
ErrorText(what, outcome) ==
    IF outcome = "http_error" THEN <<"Error", what, ": HTTP", "500">>
    ELSE IF outcome = "connect_error"
         THEN <<"Error", what, ": Could not connect to browser infrastructure">>
    ELSE <<"Error", what, ":", "timed out">>

\* the tokens of a url as it appears inside a text: a url may itself contain
\* the substring "page_id:"
UrlText(url) == IF url = "u?page_id:x" THEN <<"u?", "page_id:", "x">> ELSE <<url>>

navigate(args, outcome) ==
    IF outcome = "ok"
    THEN <<"Navigated successfully.", "page_id:", "p1", ",", "url:">> \o UrlText(args.url)
    ELSE IF outcome = "http_error"
    THEN <<"Error", "navigating to">> \o UrlText(args.url) \o <<": HTTP", "500">>
    ELSE IF outcome = "connect_error"
    THEN <<"Error", "navigating", ": Could not connect to browser infrastructure">>
    ELSE <<"Error", "navigating to">> \o UrlText(args.url) \o <<":", "timed out">>

execute_js(args, outcome) ==
    IF outcome = "ok"
    THEN <<"JavaScript executed successfully.", "result:", "r">>
    ELSE ErrorText("executing JavaScript", outcome)

\* the methods class BrowserClient defines
ClientOps ==
    {"close", "ping", "create_session", "get_session", "list_sessions",
     "list_agent_sessions", "close_session", "delete_session", "resume_session",
     "navigate", "execute_js", "capture_screenshot", "get_page_content", "close_page"}

\* the client method each registered tool function awaits
RemoteOp(name) == IF name = "search_text" THEN "execute_js" ELSE name

\* the words after "Error" in a tool's failure texts
ErrorWhat(name) ==
    IF name = "navigate" THEN "navigating"
    ELSE IF name = "analyze_page" THEN "analyzing page"
    ELSE IF name = "get_accessibility_tree" THEN "getting accessibility tree"
    ELSE IF name = "get_page_content" THEN "getting page content"
    ELSE IF name = "execute_js" THEN "executing JavaScript"
    ELSE IF name = "search_text" THEN "searching text"
    ELSE IF name = "capture_screenshot" THEN "capturing screenshot"
    ELSE IF name = "create_session" THEN "creating session"
    ELSE IF name = "close_session" THEN "closing session"
    ELSE IF name = "delete_session" THEN "deleting session"
    ELSE "closing page"

\* client.<op> for a method the class lacks: AttributeError, caught by the
\* tool's except Exception arm
MissingOpText(name) ==
    <<"Error", ErrorWhat(name), ":", "'BrowserClient' object has no attribute", RemoteOp(name)>>

Min(a, b) == IF a <= b THEN a ELSE b

\* a page as the backend serves it: the number of characters of its content
\* and the length field of the response
Pages ==
    [chars : {0, TruncateAt - 1, TruncateAt, TruncateAt + 1},
     length : {0, TruncateAt - 1, TruncateAt, TruncateAt + 1}]

\* the page served where a run does not care about its size
SmallPage == [chars |-> 0, length |-> 0]

\* get_page_content: the content is cut when result.length exceeds the
\* threshold; the text names the number of characters of content it carries
get_page_content(args, outcome, page) ==
    IF outcome = "ok"
    THEN <<"Page content (length:", ToString(page.length), "):", "chars:">>
         \o (IF page.length > TruncateAt
             THEN <<ToString(Min(page.chars, TruncateAt)),
                    "... [TRUNCATED - full page is", ToString(page.length), "chars.",
                    "Use execute_js for targeted extraction.]">>
             ELSE <<ToString(page.chars)>>)
    ELSE ErrorText(ErrorWhat("get_page_content"), outcome)

search_text(args, outcome) ==
    IF outcome = "ok" THEN <<"Search results:", "r">>
    ELSE ErrorText(ErrorWhat("search_text"), outcome)

capture_screenshot(args, outcome) ==
    IF outcome = "ok"
    THEN <<"Screenshot captured successfully.", "size:", "n", ",", "format:", "png">>
    ELSE ErrorText(ErrorWhat("capture_screenshot"), outcome)

close_page(args, outcome) ==
    IF outcome = "ok" THEN <<"Page closed successfully.", "page_id:", args.page_id>>
    ELSE ErrorText(ErrorWhat("close_page"), outcome)

\* the id the backend gives a session created while the run's own session exists
SecondSession == "s2"

create_session(args, outcome) ==
    IF outcome = "ok"
    THEN <<"Session created.", "session_id:", SecondSession, ",", "session_name:", "None">>
    ELSE ErrorText(ErrorWhat("create_session"), outcome)

close_session(args, outcome) ==
    IF outcome = "ok"
    THEN <<"Session closed successfully.", "session_id:", args.session_id, ",",
           "session_name:", "None">>
    ELSE ErrorText(ErrorWhat("close_session"), outcome)

delete_session(args, outcome) ==
    IF outcome = "ok" THEN <<"Session deleted successfully.", "session_id:", args.session_id>>
    ELSE ErrorText(ErrorWhat("delete_session"), outcome)

\* the result text of a registered tool called with valid arguments, the
\* backend answering `outcome` and serving `page`
ToolFnOn(name, args, outcome, page) ==
    IF RemoteOp(name) \notin ClientOps THEN MissingOpText(name)
    ELSE IF name = "navigate" THEN navigate(args, outcome)
    ELSE IF name = "execute_js" THEN execute_js(args, outcome)
    ELSE IF name = "get_page_content" THEN get_page_content(args, outcome, page)
    ELSE IF name = "search_text" THEN search_text(args, outcome)
    ELSE IF name = "capture_screenshot" THEN capture_screenshot(args, outcome)
    ELSE IF name = "create_session" THEN create_session(args, outcome)
    ELSE IF name = "close_session" THEN close_session(args, outcome)
    ELSE IF name = "delete_session" THEN delete_session(args, outcome)
    ELSE close_page(args, outcome)

ToolFn(name, args, outcome) == ToolFnOn(name, args, outcome, SmallPage)

\* index of the first occurrence of token t in text, 0 if none
IndexOf(text, t) ==
    IF \E i \in 1..Len(text) : text[i] = t
    THEN CHOOSE i \in 1..Len(text) : text[i] = t /\ \A j \in 1..(i - 1) : text[j] # t
    ELSE 0

\* content.split("page_id:")[1].split(",")[0].strip()
PageIdOf(text) ==
    LET i == IndexOf(text, "page_id:")
        rest == SubSeq(text, i + 1, Len(text))
        rest1 == LET k == IndexOf(rest, "page_id:")
                 IN IF k = 0 THEN rest ELSE SubSeq(rest, 1, k - 1)
        j == IndexOf(rest1, ",")
    IN IF j = 0 THEN rest1 ELSE SubSeq(rest1, 1, j - 1)

(***************************************************************************)
(* AgentService helpers (app/services/agent_service.py)                    *)
(***************************************************************************)
ArgKeys == <<"session_id", "page_id", "url", "script", "query", "agent_id">>

RECURSIVE ArgsTextFrom(_, _)
ArgsTextFrom(args, i) ==
    IF i > Len(ArgKeys) THEN <<>>
    ELSE (IF ArgKeys[i] \in DOMAIN args THEN <<ArgKeys[i], args[ArgKeys[i]]>> ELSE <<>>)
         \o ArgsTextFrom(args, i + 1)

\* str(tool_args)
ArgsText(args) == ArgsTextFrom(args, 1)

\* tool_args.get(k, default)
ArgGet(args, k, default) == IF k \in DOMAIN args THEN args[k] ELSE default

_format_tool_detail(tool_name, tool_args) ==
    IF tool_name = "create_session"
    THEN <<"Creating browser session for agent", ArgGet(tool_args, "agent_id", "unknown")>>
    ELSE IF tool_name = "navigate"
    THEN <<"Navigating to", ArgGet(tool_args, "url", "unknown")>>
    ELSE IF tool_name = "get_page_content" THEN <<"Extracting page content">>
    ELSE IF tool_name = "execute_js"
    THEN <<"Executing JavaScript:", ArgGet(tool_args, "script", "")>>
    ELSE IF tool_name = "capture_screenshot" THEN <<"Capturing screenshot of current page">>
    ELSE IF tool_name = "close_page" THEN <<"Closing page">>
    ELSE IF tool_name = "close_session" THEN <<"Closing session (preserving data)">>
    ELSE IF tool_name = "delete_session" THEN <<"Deleting session (final cleanup)">>
    ELSE <<"Calling", tool_name, "with">> \o ArgsText(tool_args)

\* one frame of the event stream, as _format_sse writes it: the event name and
\* the JSON payload
_format_sse(event, data) == [event |-> event, data |-> data]

(***************************************************************************)
(* Internal lifecycle events of astream_events(version="v2")               *)
(***************************************************************************)
Ev(event, name, input, output, content, has_tool_calls) ==
    [event |-> event, name |-> name, input |-> input, output |-> output,
     content |-> content, tool_calls |-> has_tool_calls]

OnToolStart(name, args) == Ev("on_tool_start", name, args, <<>>, <<>>, FALSE)
OnToolEnd(name, out) == Ev("on_tool_end", name, NoUpdate, out, <<>>, FALSE)
OnChatModelStart == Ev("on_chat_model_start", "llm", NoUpdate, <<>>, <<>>, FALSE)
OnChatModelStream(content, tc) == Ev("on_chat_model_stream", "llm", NoUpdate, <<>>, content, tc)
OnChainEnd(node) == Ev("on_chain_end", node, NoUpdate, <<>>, <<>>, FALSE)

\* variant of OnEvent: on_tool_start does not store the incremented counter
OnEvent_stale_counter(ev, sn, ans) ==
    IF ev.event = "on_tool_start"
    THEN [out |-> <<_format_sse("step_start",
                        [step_number |-> sn + 1, action |-> ev.name,
                         detail |-> _format_tool_detail(ev.name, ev.input)])>>,
          step_number |-> sn, current_answer |-> ans]
    ELSE IF ev.event = "on_tool_end"
    THEN [out |-> IF StartsWithError(ev.output)
                  THEN <<_format_sse("step_error",
                            [step_number |-> sn, action |-> ev.name, error |-> ev.output])>>
                  ELSE <<_format_sse("step_complete",
                            [step_number |-> sn, action |-> ev.name])>>,
          step_number |-> sn, current_answer |-> ans]
    ELSE IF ev.event = "on_chat_model_stream"
    THEN [out |-> <<>>, step_number |-> sn,
          current_answer |-> IF ev.content # <<>> /\ ~ev.tool_calls
                             THEN ans \o ev.content ELSE ans]
    ELSE IF ev.event = "on_chat_model_start"
    THEN [out |-> IF sn > 0
                  THEN <<_format_sse("thinking", [detail |-> <<"Agent is reasoning...">>])>>
                  ELSE <<>>,
          step_number |-> sn, current_answer |-> ans]
    ELSE [out |-> <<>>, step_number |-> sn, current_answer |-> ans]

\* the body of stream_query's loop for one internal event: the frames it
\* yields and the new values of its two locals
OnEvent(ev, sn, ans) ==
    IF ev.event = "on_tool_start"
    THEN [out |-> <<_format_sse("step_start",
                        [step_number |-> sn + 1, action |-> ev.name,
                         detail |-> _format_tool_detail(ev.name, ev.input)])>>,
          step_number |-> sn + 1, current_answer |-> ans]
    ELSE IF ev.event = "on_tool_end"
    THEN [out |-> IF StartsWithError(ev.output)
                  THEN <<_format_sse("step_error",
                            [step_number |-> sn, action |-> ev.name, error |-> ev.output])>>
                  ELSE <<_format_sse("step_complete",
                            [step_number |-> sn, action |-> ev.name])>>,
          step_number |-> sn, current_answer |-> ans]
    ELSE IF ev.event = "on_chat_model_stream"
    THEN [out |-> <<>>, step_number |-> sn,
          current_answer |-> IF ev.content # <<>> /\ ~ev.tool_calls
                             THEN ans \o ev.content ELSE ans]
    ELSE IF ev.event = "on_chat_model_start"
    THEN [out |-> IF sn > 0
                  THEN <<_format_sse("thinking", [detail |-> <<"Agent is reasoning...">>])>>
                  ELSE <<>>,
          step_number |-> sn, current_answer |-> ans]
    ELSE [out |-> <<>>, step_number |-> sn, current_answer |-> ans]

\* the loop over a run of internal events
RECURSIVE OnEvents(_, _, _, _)
OnEvents(evs, out, sn, ans) ==
    IF evs = <<>> THEN [out |-> out, step_number |-> sn, current_answer |-> ans]
    ELSE LET r == OnEvent(Head(evs), sn, ans)
         IN OnEvents(Tail(evs), out \o r.out, r.step_number, r.current_answer)

\* variant of StreamTail: the two closing frames in the other order
StreamTail_done_first(ans) ==
    <<_format_sse("done", [success |-> TRUE]),
      _format_sse("answer_complete", [answer |-> ans])>>

\* the two frames after the loop
StreamTail(ans) ==
    <<_format_sse("answer_complete", [answer |-> ans]),
      _format_sse("done", [success |-> TRUE])>>

\* the frame of the except arm
StreamError(e) == <<_format_sse("error", [error |-> e])>>

(***************************************************************************)
(* Trace extraction (batch mode)                                           *)
(***************************************************************************)
WorkflowStep(n, action, detail, success) ==
    [step_number |-> n, action |-> action, detail |-> detail, success |-> success]

\* variant of StepsOfCalls: only the first call of a batch gets a step
StepsOfCalls_first_only(calls, steps, n) ==
    IF calls = <<>> THEN steps
    ELSE Append(steps, WorkflowStep(n, Head(calls).name,
                        _format_tool_detail(Head(calls).name, Head(calls).args), TRUE))

\* variant of StepsOfCalls: step_number is not advanced inside a batch
RECURSIVE StepsOfCalls_no_increment(_, _, _)
StepsOfCalls_no_increment(calls, steps, n) ==
    IF calls = <<>> THEN steps
    ELSE StepsOfCalls_no_increment(Tail(calls),
            Append(steps, WorkflowStep(n, Head(calls).name,
                            _format_tool_detail(Head(calls).name, Head(calls).args), TRUE)),
            n)

\* the inner loop over one AI message's tool calls
RECURSIVE StepsOfCalls(_, _, _)
StepsOfCalls(calls, steps, n) ==
    IF calls = <<>> THEN steps
    ELSE StepsOfCalls(Tail(calls),
            Append(steps, WorkflowStep(n, Head(calls).name,
                            _format_tool_detail(Head(calls).name, Head(calls).args), TRUE)),
            n + 1)

\* variant of FlipLast: the first step is marked instead of the last
FlipLast_first(steps, content) ==
    [steps EXCEPT ![1] =
        [@ EXCEPT !.success = FALSE, !.detail = @ \o <<"->">> \o content]]

\* steps[-1].success = False; steps[-1].detail += " -> content"
FlipLast(steps, content) ==
    [steps EXCEPT ![Len(steps)] =
        [@ EXCEPT !.success = FALSE, !.detail = @ \o <<"->">> \o content]]

\* the loop over the messages; n is the local step_number
RECURSIVE ExtractStepsFrom(_, _, _)
ExtractStepsFrom(msgs, steps, n) ==
    IF msgs = <<>> THEN steps
    ELSE LET m == Head(msgs)
             calls == IF m.type = "ai" THEN m.tool_calls ELSE <<>>
             s1 == IF calls # <<>> THEN StepsOfCalls(calls, steps, n) ELSE steps
             s2 == IF m.type = "tool" /\ s1 # <<>> /\ StartsWithError(m.content)
                   THEN FlipLast(s1, m.content)
                   ELSE s1
         IN ExtractStepsFrom(Tail(msgs), s2, n + Len(calls))

_extract_steps(msgs) == ExtractStepsFrom(msgs, <<>>, 1)

Sentinel == <<"The agent completed but did not produce a final answer.">>

RECURSIVE ExtractAnswerFrom(_, _)
ExtractAnswerFrom(msgs, i) ==
    IF i = 0 THEN Sentinel
    ELSE IF msgs[i].type = "ai" /\ msgs[i].tool_calls = <<>> THEN msgs[i].content
    ELSE ExtractAnswerFrom(msgs, i - 1)

\* variant of _extract_answer: the scan runs forward, so the first final text wins
_extract_answer_forward(msgs) ==
    IF \E i \in 1..Len(msgs) : msgs[i].type = "ai" /\ msgs[i].tool_calls = <<>>
    THEN msgs[CHOOSE i \in 1..Len(msgs) :
                /\ msgs[i].type = "ai" /\ msgs[i].tool_calls = <<>>
                /\ \A j \in 1..(i - 1) : ~(msgs[j].type = "ai" /\ msgs[j].tool_calls = <<>>)].content
    ELSE Sentinel

_extract_answer(msgs) == ExtractAnswerFrom(msgs, Len(msgs))

\* content.split("session_id:")[1].split(",")[0].strip()
SessionIdOf(text) ==
    LET i == IndexOf(text, "session_id:")
        rest == SubSeq(text, i + 1, Len(text))
        rest1 == LET k == IndexOf(rest, "session_id:")
                 IN IF k = 0 THEN rest ELSE SubSeq(rest, 1, k - 1)
        j == IndexOf(rest1, ",")
    IN IF j = 0 THEN rest1 ELSE SubSeq(rest1, 1, j - 1)

RECURSIVE ExtractSessionIdFrom(_)
ExtractSessionIdFrom(msgs) ==
    IF msgs = <<>> THEN None
    ELSE IF Head(msgs).type = "tool" /\ IndexOf(Head(msgs).content, "session_id:") # 0
    THEN SessionIdOf(Head(msgs).content)
    ELSE ExtractSessionIdFrom(Tail(msgs))

_extract_session_id(msgs) == ExtractSessionIdFrom(msgs)

QueryResponse(session_id, answer, steps, success, error) ==
    [query |-> "q", agent_id |-> AgentId, session_id |-> session_id, answer |-> answer,
     steps |-> steps, success |-> success, error |-> error]

\* the try arm of execute_query after ainvoke returned
SuccessResponse(msgs) ==
    QueryResponse(_extract_session_id(msgs), _extract_answer(msgs), _extract_steps(msgs),
                  TRUE, None)

\* variant of FailureResponse: success left at the schema's default
FailureResponse_default_success(e) ==
    QueryResponse(None, <<"I encountered an error while processing your request:", e>>,
                  <<>>, TRUE, <<e>>)

\* the except arm of execute_query
FailureResponse(e) ==
    QueryResponse(None, <<"I encountered an error while processing your request:", e>>,
                  <<>>, FALSE, <<e>>)

(***************************************************************************)
(* Graph nodes (app/graph/nodes.py) and routing (app/graph/workflow.py)    *)
(***************************************************************************)
\* str(e) of the exceptions the transport raises
TransportText(outcome) ==
    IF outcome = "http_error" THEN "HTTP 500"
    ELSE IF outcome = "connect_error" THEN "connection refused"
    ELSE "timed out"

SystemPrompt(sid) == <<"You are a browser automation agent.", "session_id:", sid>>

\* variant of initialize_update: the counter starts at 1
initialize_update_from_one(st, outcome, sid) ==
    IF ~Has(st, "agent_id")
    THEN [error |-> <<"Failed to create browser session:", "'agent_id'">>]
    ELSE IF outcome = "ok"
    THEN [session_id |-> sid, messages |-> <<SystemMessage(SystemPrompt(sid))>>,
          iteration_count |-> 1]
    ELSE [error |-> <<"Failed to create browser session:", TransportText(outcome)>>]

\* GraphNodes.initialize: the partial update it returns.  state["agent_id"] is
\* read inside the try, so a missing key ends in the except arm like a failed
\* create_session.
initialize_update(st, outcome, sid) ==
    IF ~Has(st, "agent_id")
    THEN [error |-> <<"Failed to create browser session:", "'agent_id'">>]
    ELSE IF outcome = "ok"
    THEN [session_id |-> sid, messages |-> <<SystemMessage(SystemPrompt(sid))>>,
          iteration_count |-> 0]
    ELSE [error |-> <<"Failed to create browser session:", TransportText(outcome)>>]

\* whether initialize reaches the backend and the backend creates the session
SessionCreated(st, outcome) == Has(st, "agent_id") /\ outcome = "ok"

\* variant of agent_result: the counter is read with a default of 0
agent_result_get_default(st, resp) ==
    [raises |-> "",
     update |-> [messages |-> <<resp>>,
                 iteration_count |-> (IF Has(st, "iteration_count")
                                      THEN st.iteration_count ELSE 0) + 1]]

\* GraphNodes.agent, after llm.ainvoke returned `resp`: the update, or the
\* KeyError of state["iteration_count"]
agent_result(st, resp) ==
    IF Has(st, "iteration_count")
    THEN [raises |-> "", update |-> [messages |-> <<resp>>,
                                      iteration_count |-> st.iteration_count + 1]]
    ELSE [raises |-> "'iteration_count'", update |-> NoUpdate]

\* variant of should_continue: the cap is compared with > instead of >=
should_continue_off_by_one(st) ==
    IF Truthy(Get(st, "error")) THEN [raises |-> "", to |-> "cleanup"]
    ELSE IF ~Has(st, "iteration_count") THEN [raises |-> "'iteration_count'", to |-> ""]
    ELSE IF ~Has(st, "max_iterations") THEN [raises |-> "'max_iterations'", to |-> ""]
    ELSE IF st.iteration_count > st.max_iterations THEN [raises |-> "", to |-> "cleanup"]
    ELSE IF Last(st.messages).type = "ai" /\ Last(st.messages).tool_calls # <<>>
    THEN [raises |-> "", to |-> "tools"]
    ELSE [raises |-> "", to |-> "cleanup"]

\* should_continue: the branch it returns, or the KeyError it raises
should_continue(st) ==
    IF Truthy(Get(st, "error")) THEN [raises |-> "", to |-> "cleanup"]
    ELSE IF ~Has(st, "iteration_count") THEN [raises |-> "'iteration_count'", to |-> ""]
    ELSE IF ~Has(st, "max_iterations") THEN [raises |-> "'max_iterations'", to |-> ""]
    ELSE IF st.iteration_count >= st.max_iterations THEN [raises |-> "", to |-> "cleanup"]
    ELSE IF Last(st.messages).type = "ai" /\ Last(st.messages).tool_calls # <<>>
    THEN [raises |-> "", to |-> "tools"]
    ELSE [raises |-> "", to |-> "cleanup"]

\* the edges build_agent adds: the node that follows `node`
NextNode(node, st) ==
    IF node = "initialize" THEN "agent"
    ELSE IF node = "agent" THEN should_continue(st).to
    ELSE IF node = "tools" THEN "post_process"
    ELSE IF node = "post_process" THEN "agent"
    ELSE "END"

\* variant of tool_result: the text for an unknown name lacks the failure marker
tool_result_no_marker(call, outcome) ==
    IF call.name \in tools_by_name
    THEN ToolFn(call.name, call.args, outcome)
    ELSE <<"Unknown tool", call.name>>

\* one iteration of the loop of GraphNodes.tools: the result text of one call,
\* the backend serving `page`
tool_result_on(call, outcome, page) ==
    IF call.name \in tools_by_name
    THEN ToolFnOn(call.name, call.args, outcome, page)
    ELSE <<"Error", ": Unknown tool", call.name>>

\* one iteration of the loop of GraphNodes.tools: the result text of one call
tool_result(call, outcome) ==
    IF call.name \in tools_by_name
    THEN ToolFn(call.name, call.args, outcome)
    ELSE <<"Error", ": Unknown tool", call.name>>

\* the second loop of GraphNodes.tools: the last navigate result that carries
\* "page_id:" sets current_page_id
RECURSIVE PageUpdate(_, _)
PageUpdate(tmsgs, upd) ==
    IF tmsgs = <<>> THEN upd
    ELSE LET m == Head(tmsgs)
         IN PageUpdate(Tail(tmsgs),
                IF m.name = "navigate" /\ IndexOf(m.content, "page_id:") # 0
                THEN Merge(upd, [current_page_id |-> PageIdOf(m.content)])
                ELSE upd)

\* variant of tools_update: the page id found is also stored as session_id
tools_update_session_key(tmsgs) ==
    LET u == PageUpdate(tmsgs, [messages |-> tmsgs])
    IN IF Has(u, "current_page_id")
       THEN [k \in DOMAIN u \cup {"session_id"} |->
                IF k = "session_id" THEN u.current_page_id ELSE u[k]]
       ELSE u

tools_update(tmsgs) == PageUpdate(tmsgs, [messages |-> tmsgs])

(***************************************************************************)
(* The run: one action per graph node, per routing decision and per caller *)
(***************************************************************************)
Init ==
    /\ mode \in {"execute_query", "stream_query", "ainvoke", "astream_events"}
    /\ state \in (IF mode \in {"ainvoke", "astream_events"} THEN GraphInputs
                  ELSE {FacadeInputs})
    /\ pc = "initialize"
    /\ exc = ""
    /\ tool_messages = <<>>
    /\ remote = {}
    /\ deleted = <<>>
    /\ hist = [llm_calls |-> 0, passes |-> 0, dispatches |-> 0, cleanups |-> 0,
               tool_failures |-> 0, routed |-> 0, replies |-> <<>>]
    /\ step_number = 0
    /\ current_answer = <<>>
    /\ feed = <<>>
    /\ sse = <<>>
    /\ response = <<>>

\* the run's events are consumed by the loop of stream_query: by stream_query
\* itself, or by that loop over astream_events of a run whose inputs carry the
\* fields the nodes read
Streaming == mode \in {"stream_query", "astream_events"}

\* variant of Deliver: new frames are put in front of the stream
Deliver_prepend(evs) ==
    IF Streaming
    THEN LET r == OnEvents(evs, <<>>, step_number, current_answer)
         IN /\ feed' = feed \o evs
            /\ sse' = r.out \o sse
            /\ step_number' = r.step_number
            /\ current_answer' = r.current_answer
    ELSE UNCHANGED <<feed, sse, step_number, current_answer>>

\* astream_events hands the events to stream_query's loop in the order they
\* are produced; ainvoke produces none
Deliver(evs) ==
    IF Streaming
    THEN LET r == OnEvents(evs, <<>>, step_number, current_answer)
         IN /\ feed' = feed \o evs
            /\ sse' = sse \o r.out
            /\ step_number' = r.step_number
            /\ current_answer' = r.current_answer
    ELSE UNCHANGED <<feed, sse, step_number, current_answer>>

\* an exception leaves the graph: no further node runs
Raise(e) == pc' = "raised" /\ exc' = e

initialize ==
    /\ pc = "initialize"
    /\ \E outcome \in Outcomes, sid \in SessionIds :
        /\ state' = Merge(state, initialize_update(state, outcome, sid))
        /\ remote' = IF SessionCreated(state, outcome) THEN remote \cup {sid} ELSE remote
    /\ pc' = NextNode("initialize", state')
    /\ Deliver(<<OnChainEnd("initialize")>>)
    /\ UNCHANGED <<mode, exc, tool_messages, deleted, hist, response>>

\* the chunks the model streams for a response: its text, then its tool calls
Chunks(resp) ==
    (IF resp.content # <<>> THEN <<OnChatModelStream(resp.content, FALSE)>> ELSE <<>>)
    \o (IF resp.tool_calls # <<>> THEN <<OnChatModelStream(<<>>, TRUE)>> ELSE <<>>)

\* the tool names an AI message asks for, in order (empty for a final text)
Requested(resp) == [i \in 1..Len(resp.tool_calls) |-> resp.tool_calls[i].name]

agent ==
    /\ pc = "agent"
    /\ \/ \* llm.ainvoke raises
          /\ Raise("llm error")
          /\ Deliver(<<OnChatModelStart>>)
          /\ hist' = [hist EXCEPT !.llm_calls = @ + 1]
          /\ UNCHANGED state
       \/ \E resp \in LLMResponses(hist.llm_calls + 1) :
            LET r == agent_result(state, resp)
            IN /\ Deliver(<<OnChatModelStart>> \o Chunks(resp))
               /\ IF r.raises # ""
                  THEN /\ Raise(r.raises)
                       /\ hist' = [hist EXCEPT !.llm_calls = @ + 1,
                                               !.replies = Append(@, Requested(resp))]
                       /\ UNCHANGED state
                  ELSE /\ state' = Merge(state, r.update)
                       /\ pc' = "should_continue"
                       /\ hist' = [hist EXCEPT !.llm_calls = @ + 1, !.passes = @ + 1,
                                               !.replies = Append(@, Requested(resp))]
                       /\ UNCHANGED exc
    /\ UNCHANGED <<mode, tool_messages, remote, deleted, response>>

\* the conditional edge after the agent node
route ==
    /\ pc = "should_continue"
    /\ LET r == should_continue(state)
       IN IF r.raises # ""
          THEN /\ Raise(r.raises)
               /\ UNCHANGED hist
          ELSE /\ pc' = NextNode("agent", state)
               /\ hist' = [hist EXCEPT !.routed = @ + 1,
                                       !.dispatches = IF r.to = "tools" THEN @ + 1 ELSE @]
               /\ UNCHANGED exc
    /\ UNCHANGED <<mode, state, tool_messages, remote, deleted,
                   step_number, current_answer, feed, sse, response>>

\* the backend's sessions and the deletions attempted after GraphNodes.tools
\* handled `call`: only a function found in tools_by_name reaches the client
BackendAfter(call, outcome, rem, del) ==
    IF call.name \notin tools_by_name THEN [remote |-> rem, deleted |-> del]
    ELSE IF call.name = "create_session"
    THEN [remote |-> IF outcome = "ok" THEN rem \cup {SecondSession} ELSE rem,
          deleted |-> del]
    ELSE IF call.name = "close_session"
    THEN [remote |-> IF outcome = "ok" THEN rem \ {call.args.session_id} ELSE rem,
          deleted |-> del]
    ELSE IF call.name = "delete_session"
    THEN [remote |-> IF outcome = "ok" THEN rem \ {call.args.session_id} ELSE rem,
          deleted |-> Append(del, call.args.session_id)]
    ELSE [remote |-> rem, deleted |-> del]

\* one iteration of the for loop of GraphNodes.tools
tools_call ==
    /\ pc = "tools"
    /\ Len(tool_messages) < Len(Last(state.messages).tool_calls)
    /\ LET call == Last(state.messages).tool_calls[Len(tool_messages) + 1]
       IN IF call.name \in tools_by_name /\ ~ArgsValid(call.name, call.args)
          THEN /\ Raise("validation error")
               /\ Deliver(<<OnToolStart(call.name, call.args)>>)
               /\ UNCHANGED <<tool_messages, hist, remote, deleted>>
          ELSE \E outcome \in Outcomes :
                LET result == tool_result(call, outcome)
                    backend == BackendAfter(call, outcome, remote, deleted)
                IN /\ remote' = backend.remote
                   /\ deleted' = backend.deleted
                   /\ tool_messages' =
                        Append(tool_messages, ToolMessage(result, call.id, call.name))
                   /\ Deliver(IF call.name \in tools_by_name
                              THEN <<OnToolStart(call.name, call.args),
                                     OnToolEnd(call.name, result)>>
                              ELSE <<>>)
                   /\ hist' = [hist EXCEPT !.tool_failures =
                                IF call.name \in tools_by_name /\ outcome # "ok"
                                THEN @ + 1 ELSE @]
                   /\ UNCHANGED <<pc, exc>>
    /\ UNCHANGED <<mode, state, response>>

\* variant of tools_return: the step returns as soon as one call has completed
tools_return_after_first ==
    /\ pc = "tools"
    /\ Len(tool_messages) >= 1
    /\ state' = Merge(state, tools_update(tool_messages))
    /\ tool_messages' = <<>>
    /\ pc' = NextNode("tools", state')
    /\ Deliver(<<OnChainEnd("tools")>>)
    /\ UNCHANGED <<mode, exc, remote, deleted, hist, response>>

\* the end of GraphNodes.tools: the update is merged and the edge to
\* post_process is taken
tools_return ==
    /\ pc = "tools"
    /\ Len(tool_messages) = Len(Last(state.messages).tool_calls)
    /\ state' = Merge(state, tools_update(tool_messages))
    /\ tool_messages' = <<>>
    /\ pc' = NextNode("tools", state')
    /\ Deliver(<<OnChainEnd("tools")>>)
    /\ UNCHANGED <<mode, exc, remote, deleted, hist, response>>

post_process ==
    /\ pc = "post_process"
    /\ pc' = NextNode("post_process", state)
    /\ Deliver(<<OnChainEnd("post_process")>>)
    /\ UNCHANGED <<mode, state, exc, tool_messages, remote, deleted,
                   hist, response>>

\* variant of cleanup: a failing delete_session is not caught
cleanup_propagates ==
    /\ pc = "cleanup"
    /\ Has(state, "session_id") /\ state.session_id # ""
    /\ \E outcome \in Outcomes :
        /\ deleted' = Append(deleted, state.session_id)
        /\ remote' = IF outcome = "ok" THEN remote \ {state.session_id} ELSE remote
        /\ IF outcome = "ok"
           THEN pc' = NextNode("cleanup", state) /\ UNCHANGED exc
           ELSE Raise(TransportText(outcome))
    /\ hist' = [hist EXCEPT !.cleanups = @ + 1]
    /\ Deliver(<<OnChainEnd("cleanup")>>)
    /\ UNCHANGED <<mode, state, tool_messages, response>>

\* GraphNodes.cleanup: delete_session is attempted when session_id is truthy;
\* its failure is logged and swallowed
cleanup ==
    /\ pc = "cleanup"
    /\ IF Has(state, "session_id") /\ state.session_id # ""
       THEN \E outcome \in Outcomes :
            /\ deleted' = Append(deleted, state.session_id)
            /\ remote' = IF outcome = "ok" THEN remote \ {state.session_id} ELSE remote
       ELSE UNCHANGED <<deleted, remote>>
    /\ hist' = [hist EXCEPT !.cleanups = @ + 1]
    /\ pc' = NextNode("cleanup", state)
    /\ Deliver(<<OnChainEnd("cleanup")>>)
    /\ UNCHANGED <<mode, state, exc, tool_messages, response>>

GraphOver == pc \in {"END", "raised"}

\* execute_query after self.agent.ainvoke: the try arm or the except arm
execute_query_return ==
    /\ mode = "execute_query"
    /\ GraphOver
    /\ response' = Append(response, IF pc = "END" THEN SuccessResponse(state.messages)
                                     ELSE FailureResponse(exc))
    /\ pc' = "done"
    /\ UNCHANGED <<mode, state, exc, tool_messages, remote, deleted,
                   hist, step_number, current_answer, feed, sse>>

\* stream_query after the async for: the two closing frames or the except arm
stream_query_finish ==
    /\ Streaming
    /\ GraphOver
    /\ sse' = sse \o (IF pc = "END" THEN StreamTail(current_answer) ELSE StreamError(exc))
    /\ pc' = "done"
    /\ UNCHANGED <<mode, state, exc, tool_messages, remote, deleted,
                   hist, step_number, current_answer, feed, response>>

\* a direct caller of the compiled graph gets the final state or the exception
ainvoke_return ==
    /\ mode = "ainvoke"
    /\ GraphOver
    /\ pc' = "done"
    /\ UNCHANGED <<mode, state, exc, tool_messages, remote, deleted,
                   hist, step_number, current_answer, feed, sse, response>>

Next ==
    \/ initialize
    \/ agent
    \/ route
    \/ tools_call
    \/ tools_return
    \/ post_process
    \/ cleanup
    \/ execute_query_return
    \/ stream_query_finish
    \/ ainvoke_return

Spec == Init /\ [][Next]_vars

(***************************************************************************)
(* The stream translator on its own: stream_query's loop over any feed     *)
(* astream_events may deliver, ended by exhaustion or by an exception      *)
(***************************************************************************)
NavOk == navigate(NavArgs, "ok")
NavErr == navigate(NavArgs, "connect_error")

FeedEvents ==
    { OnToolStart("navigate", NavArgs),
      OnToolStart("execute_js", JsArgs),
      OnToolEnd("navigate", NavOk),
      OnToolEnd("navigate", NavErr),
      OnChatModelStart,
      OnChatModelStream(<<"tok">>, FALSE),
      OnChatModelStream(<<>>, TRUE),
      OnChainEnd("cleanup") }

InitStream ==
    /\ mode = "stream_query"
    /\ state = FacadeInputs
    /\ pc = "streaming"
    /\ exc = ""
    /\ tool_messages = <<>>
    /\ remote = {}
    /\ deleted = <<>>
    /\ hist = [llm_calls |-> 0, passes |-> 0, dispatches |-> 0, cleanups |-> 0,
               tool_failures |-> 0, routed |-> 0, replies |-> <<>>]
    /\ step_number = 0
    /\ current_answer = <<>>
    /\ feed = <<>>
    /\ sse = <<>>
    /\ response = <<>>

\* one turn of the async for
stream_event ==
    /\ pc = "streaming"
    /\ Len(feed) < MaxFeed
    /\ \E ev \in FeedEvents : Deliver(<<ev>>)
    /\ UNCHANGED <<mode, state, pc, exc, tool_messages, remote, deleted,
                   hist, response>>

\* the feed is exhausted
stream_exhausted ==
    /\ pc = "streaming"
    /\ sse' = sse \o StreamTail(current_answer)
    /\ pc' = "done"
    /\ UNCHANGED <<mode, state, exc, tool_messages, remote, deleted,
                   hist, step_number, current_answer, feed, response>>

\* the feed (or the loop body) raises
stream_raises ==
    /\ pc = "streaming"
    /\ exc' = "run failed"
    /\ sse' = sse \o StreamError(exc')
    /\ pc' = "done"
    /\ UNCHANGED <<mode, state, tool_messages, remote, deleted,
                   hist, step_number, current_answer, feed, response>>

NextStream ==
    \/ stream_event
    \/ stream_exhausted
    \/ stream_raises

SpecStream == InitStream /\ [][NextStream]_vars

(***************************************************************************)
(* The trace extractor on its own: the try arm of execute_query applied to *)
(* any completed message log                                               *)
(***************************************************************************)
LogMessages ==
    { HumanMessage(Query),
      AIMessage(<<>>, <<ToolCall("navigate", NavArgs, <<1, 1>>)>>),
      AIMessage(<<"let me look">>,
                <<ToolCall("delete_session", DelArgs, <<2, 1>>),
                  ToolCall("execute_js", JsArgs, <<2, 2>>)>>),
      AIMessage(<<"answer", "1">>, <<>>),
      AIMessage(<<"answer", "2">>, <<>>),
      AIMessage(<<>>, <<>>),
      ToolMessage(NavOk, <<1, 1>>, "navigate"),
      ToolMessage(NavErr, <<1, 1>>, "navigate") }

InitTrace ==
    /\ mode = "execute_query"
    /\ state = [messages |-> <<>>]
    /\ pc = "logging"
    /\ exc = ""
    /\ tool_messages = <<>>
    /\ remote = {}
    /\ deleted = <<>>
    /\ hist = [llm_calls |-> 0, passes |-> 0, dispatches |-> 0, cleanups |-> 0,
               tool_failures |-> 0, routed |-> 0, replies |-> <<>>]
    /\ step_number = 0
    /\ current_answer = <<>>
    /\ feed = <<>>
    /\ sse = <<>>
    /\ response = <<>>

\* the log result["messages"] grows by one message
trace_append ==
    /\ pc = "logging"
    /\ Len(state.messages) < MaxLog
    /\ \E m \in LogMessages : state' = [messages |-> Append(state.messages, m)]
    /\ UNCHANGED <<mode, pc, exc, tool_messages, remote, deleted, hist, step_number,
                   current_answer, feed, sse, response>>

\* execute_query extracts steps, answer and session id and returns
trace_extract ==
    /\ pc = "logging"
    /\ response' = Append(response, SuccessResponse(state.messages))
    /\ pc' = "done"
    /\ UNCHANGED <<mode, state, exc, tool_messages, remote, deleted, hist, step_number,
                   current_answer, feed, sse>>

NextTrace ==
    \/ trace_append
    \/ trace_extract

SpecTrace == InitTrace /\ [][NextTrace]_vars

(***************************************************************************)
(* Two runs of the one compiled graph (AgentService.agent) over the one    *)
(* BrowserClient, their node executions interleaved at every await.  Each  *)
(* run has its own AgentState; the GraphNodes object they share holds the  *)
(* client, the llm and tools_by_name and is never written after __init__.  *)
(* Here state, pc, exc and tool_messages are indexed by the run.           *)
(***************************************************************************)
Runs == {1, 2}

PairSessionIds == {"s1", "s2"}

PairOutcomes == {"ok", "connect_error"}

\* the inputs of run r: as execute_query builds them, or with the fields the
\* nodes read filled in
PairInputs(r) ==
    { [messages |-> <<HumanMessage(<<"Agent ID:", AgentId, "Task:", Str(r)>>)>>],
      [messages |-> <<HumanMessage(<<"Agent ID:", AgentId, "Task:", Str(r)>>)>>,
       agent_id |-> AgentId, max_iterations |-> PairMaxIter] }

\* what the model may answer in the pair specification
PairResponses(p) ==
    { AIMessage(<<"answer", Str(p)>>, <<>>),
      AIMessage(<<>>, <<ToolCall("navigate", NavArgs, <<p, 1>>)>>) }

\* the sessions the backend has created so far, with the run that asked
Created == {hist.created[i].session_id : i \in 1..Len(hist.created)}

InitPair ==
    /\ mode = "pair"
    /\ state \in [Runs -> UNION {PairInputs(r) : r \in Runs}]
    /\ \A r \in Runs : state[r] \in PairInputs(r)
    /\ pc = [r \in Runs |-> "initialize"]
    /\ exc = [r \in Runs |-> ""]
    /\ tool_messages = [r \in Runs |-> <<>>]
    /\ remote = {}
    /\ deleted = <<>>
    /\ hist = [created |-> <<>>]
    /\ step_number = 0
    /\ current_answer = <<>>
    /\ feed = <<>>
    /\ sse = <<>>
    /\ response = <<>>

\* GraphNodes.initialize of run r; the backend names every new session afresh
pair_initialize(r) ==
    /\ pc[r] = "initialize"
    /\ \E outcome \in PairOutcomes, sid \in PairSessionIds \ Created :
        /\ state' = [state EXCEPT ![r] = Merge(@, initialize_update(@, outcome, sid))]
        /\ IF SessionCreated(state[r], outcome)
           THEN /\ remote' = remote \cup {sid}
                /\ hist' = [hist EXCEPT !.created = Append(@, [run |-> r, session_id |-> sid])]
           ELSE UNCHANGED <<remote, hist>>
    /\ pc' = [pc EXCEPT ![r] = NextNode("initialize", state'[r])]
    /\ UNCHANGED <<mode, exc, tool_messages, deleted, step_number, current_answer,
                   feed, sse, response>>

\* GraphNodes.agent of run r
pair_agent(r) ==
    /\ pc[r] = "agent"
    /\ \E resp \in PairResponses(Len(state[r].messages)) :
        LET res == agent_result(state[r], resp)
        IN IF res.raises # ""
           THEN /\ pc' = [pc EXCEPT ![r] = "raised"]
                /\ exc' = [exc EXCEPT ![r] = res.raises]
                /\ UNCHANGED state
           ELSE /\ state' = [state EXCEPT ![r] = Merge(@, res.update)]
                /\ pc' = [pc EXCEPT ![r] = "should_continue"]
                /\ UNCHANGED exc
    /\ UNCHANGED <<mode, tool_messages, remote, deleted, hist, step_number,
                   current_answer, feed, sse, response>>

\* the conditional edge of run r
pair_route(r) ==
    /\ pc[r] = "should_continue"
    /\ LET res == should_continue(state[r])
       IN IF res.raises # ""
          THEN /\ pc' = [pc EXCEPT ![r] = "raised"]
               /\ exc' = [exc EXCEPT ![r] = res.raises]
          ELSE /\ pc' = [pc EXCEPT ![r] = NextNode("agent", state[r])]
               /\ UNCHANGED exc
    /\ UNCHANGED <<mode, state, tool_messages, remote, deleted, hist, step_number,
                   current_answer, feed, sse, response>>

\* one call of GraphNodes.tools of run r
pair_tools_call(r) ==
    /\ pc[r] = "tools"
    /\ Len(tool_messages[r]) < Len(Last(state[r].messages).tool_calls)
    /\ LET call == Last(state[r].messages).tool_calls[Len(tool_messages[r]) + 1]
       IN \E outcome \in PairOutcomes :
            tool_messages' = [tool_messages EXCEPT ![r] =
                Append(@, ToolMessage(tool_result(call, outcome), call.id, call.name))]
    /\ UNCHANGED <<mode, state, pc, exc, remote, deleted, hist, step_number,
                   current_answer, feed, sse, response>>

\* the end of GraphNodes.tools of run r
pair_tools_return(r) ==
    /\ pc[r] = "tools"
    /\ Len(tool_messages[r]) = Len(Last(state[r].messages).tool_calls)
    /\ state' = [state EXCEPT ![r] = Merge(@, tools_update(tool_messages[r]))]
    /\ tool_messages' = [tool_messages EXCEPT ![r] = <<>>]
    /\ pc' = [pc EXCEPT ![r] = NextNode("tools", state'[r])]
    /\ UNCHANGED <<mode, exc, remote, deleted, hist, step_number, current_answer,
                   feed, sse, response>>

\* GraphNodes.post_process of run r
pair_post_process(r) ==
    /\ pc[r] = "post_process"
    /\ pc' = [pc EXCEPT ![r] = NextNode("post_process", state[r])]
    /\ UNCHANGED <<mode, state, exc, tool_messages, remote, deleted, hist, step_number,
                   current_answer, feed, sse, response>>

\* variant of pair_cleanup: the session deleted is the one created last on the
\* shared client
pair_cleanup_latest(r) ==
    /\ pc[r] = "cleanup"
    /\ IF hist.created # <<>>
       THEN \E outcome \in PairOutcomes :
            /\ deleted' = Append(deleted, [run |-> r, session_id |-> Last(hist.created).session_id])
            /\ remote' = IF outcome = "ok"
                         THEN remote \ {Last(hist.created).session_id} ELSE remote
       ELSE UNCHANGED <<deleted, remote>>
    /\ pc' = [pc EXCEPT ![r] = NextNode("cleanup", state[r])]
    /\ UNCHANGED <<mode, state, exc, tool_messages, hist, step_number, current_answer,
                   feed, sse, response>>

\* GraphNodes.cleanup of run r
pair_cleanup(r) ==
    /\ pc[r] = "cleanup"
    /\ IF Has(state[r], "session_id") /\ state[r].session_id # ""
       THEN \E outcome \in PairOutcomes :
            /\ deleted' = Append(deleted, [run |-> r, session_id |-> state[r].session_id])
            /\ remote' = IF outcome = "ok" THEN remote \ {state[r].session_id} ELSE remote
       ELSE UNCHANGED <<deleted, remote>>
    /\ pc' = [pc EXCEPT ![r] = NextNode("cleanup", state[r])]
    /\ UNCHANGED <<mode, state, exc, tool_messages, hist, step_number, current_answer,
                   feed, sse, response>>

\* run r's ainvoke returns or raises to its caller
pair_return(r) ==
    /\ pc[r] \in {"END", "raised"}
    /\ pc' = [pc EXCEPT ![r] = "done"]
    /\ UNCHANGED <<mode, state, exc, tool_messages, remote, deleted, hist, step_number,
                   current_answer, feed, sse, response>>

NextPair ==
    \/ \E r \in Runs : pair_initialize(r)
    \/ \E r \in Runs : pair_agent(r)
    \/ \E r \in Runs : pair_route(r)
    \/ \E r \in Runs : pair_tools_call(r)
    \/ \E r \in Runs : pair_tools_return(r)
    \/ \E r \in Runs : pair_post_process(r)
    \/ \E r \in Runs : pair_cleanup(r)
    \/ \E r \in Runs : pair_return(r)

SpecPair == InitPair /\ [][NextPair]_vars

(***************************************************************************)
(* The tool dispatcher on its own: the loop of GraphNodes.tools over any   *)
(* batch of calls with valid arguments, the backend answering each call in *)
(* any way.  hist records, per call, what the backend answered.            *)
(***************************************************************************)
\* the names a model may ask for: the registry, and one name outside it
DispatchNames == tools_by_name \cup {"delete_session"}

DispatchArgs == [session_id |-> "s1", page_id |-> "p1", url |-> "u1", script |-> "sc",
                 query |-> "k"]

InitDispatch ==
    /\ mode = "ainvoke"
    /\ state = [messages |-> <<AIMessage(<<>>, <<>>)>>]
    /\ pc = "tools"
    /\ exc = ""
    /\ tool_messages = <<>>
    /\ remote = {"s1"}
    /\ deleted = <<>>
    /\ hist = <<>>
    /\ step_number = 0
    /\ current_answer = <<>>
    /\ feed = <<>>
    /\ sse = <<>>
    /\ response = <<>>

\* one more call in the batch, executed by the loop body
dispatch_call ==
    /\ pc = "tools"
    /\ Len(tool_messages) < MaxCalls
    /\ \E name \in DispatchNames, outcome \in Outcomes, page \in Pages :
        LET call == ToolCall(name, DispatchArgs, <<1, Len(tool_messages) + 1>>)
        IN /\ name # "get_page_content" => page = SmallPage
           /\ state' = [messages |->
                <<AIMessage(<<>>, Append(state.messages[1].tool_calls, call))>>]
           /\ tool_messages' = Append(tool_messages,
                ToolMessage(tool_result_on(call, outcome, page), call.id, call.name))
           /\ hist' = Append(hist, [outcome |-> outcome, page |-> page])
    /\ UNCHANGED <<mode, pc, exc, remote, deleted, step_number, current_answer,
                   feed, sse, response>>

\* the loop is over: the node returns its update
dispatch_return ==
    /\ pc = "tools"
    /\ state' = Merge(state, tools_update(tool_messages))
    /\ pc' = NextNode("tools", state')
    /\ UNCHANGED <<mode, exc, tool_messages, remote, deleted, hist, step_number,
                   current_answer, feed, sse, response>>

NextDispatch ==
    \/ dispatch_call
    \/ dispatch_return

SpecDispatch == InitDispatch /\ [][NextDispatch]_vars

(***************************************************************************)
(* Properties                                                              *)
(***************************************************************************)
RunOver == pc = "done"

InitFailed == Has(state, "error")

CapReached ==
    /\ Has(state, "iteration_count")
    /\ Has(state, "max_iterations")
    /\ state.iteration_count >= state.max_iterations

LastIsFinalAnswer ==
    Last(state.messages).type = "ai" /\ Last(state.messages).tool_calls = <<>>

DeleteAttemptedOn(sid) == \E i \in 1..Len(deleted) : deleted[i] = sid

Terminals == {i \in 1..Len(sse) : sse[i].event \in {"done", "error"}}

\* C1: when a run is over and its initialize step obtained a session_id,
\* delete_session has been attempted on that session_id, however the run ended
\* (also when the model call, the exit condition or a tool invocation raised).
C1_SessionReleased ==
    (RunOver /\ Has(state, "session_id")) => DeleteAttemptedOn(state.session_id)

\* C2: a run that is over and ended on the final-answer path, on the
\* session-creation-failed path or on the iteration-cap path has executed the
\* cleanup step exactly once.
C2_CleanupExactlyOnce ==
    (RunOver /\ (InitFailed \/ (exc = "" /\ (LastIsFinalAnswer \/ CapReached))))
        => hist.cleanups = 1

\* C3: a stream carries at most one frame that is `done` or `error`, that frame
\* is the last one emitted, and a stream that has ended carries one.
C3_OneTerminalEvent ==
    /\ Cardinality(Terminals) <= 1
    /\ Terminals # {} => Terminals = {Len(sse)}
    /\ RunOver <=> Terminals # {}

C3_Witness ==
    /\ RunOver
    /\ Len(sse) >= 4
    /\ sse[1].event = "step_start"
    /\ sse[2].event = "step_error"
    /\ Last(sse).event = "done"

\* C4: the tools step is only ever entered while iteration_count is below
\* max_iterations; once the cap is reached the latest AI message's tool calls
\* are not executed (no Tool message follows it) and the run goes on to cleanup.
C4_NoDispatchAtCap ==
    /\ pc \in {"tools", "post_process"} => /\ Has(state, "iteration_count")
                                           /\ Has(state, "max_iterations")
                                           /\ state.iteration_count < state.max_iterations
    /\ CapReached => /\ Last(state.messages).type = "ai"
                     /\ pc \in {"should_continue", "cleanup", "END", "done"}
                     /\ hist.dispatches < state.max_iterations

C4_Witness ==
    /\ pc = "cleanup"
    /\ CapReached
    /\ state.iteration_count = state.max_iterations
    /\ Last(state.messages).tool_calls # <<>>
    /\ hist.dispatches >= 1

C6_InitFailureSkipsModel ==
    InitFailed => /\ hist.llm_calls = 0
                  /\ hist.dispatches = 0
                  /\ pc \in {"cleanup", "END", "done"}

\* C7: the response execute_query returns for a run whose session creation
\* failed has success = false, no steps and a non-empty error.
C7_BatchInitFailure ==
    (mode = "execute_query" /\ RunOver /\ InitFailed)
        => /\ Len(response) = 1
           /\ response[1].success = FALSE
           /\ response[1].steps = <<>>
           /\ response[1].error # None
           /\ response[1].error # <<>>

C7_Witness ==
    /\ mode = "execute_query"
    /\ RunOver
    /\ InitFailed
    /\ hist.llm_calls = 1
    /\ response[1].error = <<"'iteration_count'">>

\* C8: the stream of a run whose session creation failed carries no `done`
\* frame, and once it has ended its last frame is `error`.
C8_StreamInitFailure ==
    (mode = "stream_query" /\ InitFailed)
        => /\ \A i \in 1..Len(sse) : sse[i].event # "done"
           /\ RunOver => (Len(sse) > 0 /\ Last(sse).event = "error")

C8_Witness ==
    /\ mode = "stream_query"
    /\ RunOver
    /\ InitFailed
    /\ Last(sse).event = "error"
    /\ Last(sse).data.error = "'iteration_count'"

\* C9: execute_query returns exactly one response per run and never lets an
\* exception out; when the run raised, the response has success = false and
\* error equal to the exception text.
C9_BatchExceptionCaught ==
    /\ mode = "execute_query" => Len(response) = (IF RunOver THEN 1 ELSE 0)
    /\ (mode = "execute_query" /\ RunOver /\ exc # "")
            => /\ response[1].success = FALSE
               /\ response[1].error = <<exc>>

C9_Witness ==
    /\ mode = "execute_query"
    /\ RunOver
    /\ exc = "llm error"
    /\ response[1].error = <<"llm error">>

\* C10: a run in which a dispatched tool call met a transport or backend
\* failure still reaches cleanup before it is over.
C10_ToolFailureReachesCleanup ==
    (RunOver /\ hist.tool_failures > 0) => hist.cleanups >= 1

\* the part of C10 the tools step decides: a failed call raises nothing, its Tool
\* message starts with the failure marker, and the loop goes on through
\* post_process to the next reasoning pass with that message in the history
ToolFailureInBand ==
    /\ pc = "tools" =>
        \A i \in 1..Len(tool_messages) :
            tool_messages[i].tool_call_id = Last(state.messages).tool_calls[i].id
    /\ exc \in {"", "llm error", "validation error", "'iteration_count'", "'max_iterations'"}
    /\ (hist.tool_failures > 0 /\ pc \in {"post_process", "agent"})
            => \E i \in 1..Len(state.messages) :
                    state.messages[i].type = "tool" /\ StartsWithError(state.messages[i].content)

\* C11: a tool call whose name is not registered raises nothing: the tools step
\* appends for it one Tool message with the call's id whose text starts with the
\* failure marker and goes on with the rest of the batch; when the tools step
\* does raise, the call it stopped at is a registered one.
C11_UnknownToolInBand ==
    /\ pc = "tools" =>
        \A i \in 1..Len(tool_messages) :
            LET call == Last(state.messages).tool_calls[i]
            IN call.name \notin tools_by_name =>
                /\ tool_messages[i].type = "tool"
                /\ tool_messages[i].tool_call_id = call.id
                /\ tool_messages[i].name = call.name
                /\ StartsWithError(tool_messages[i].content)
    /\ (pc = "raised" /\ exc = "validation error") =>
        Last(state.messages).tool_calls[Len(tool_messages) + 1].name \in tools_by_name

C11_Witness ==
    /\ pc = "tools"
    /\ Len(tool_messages) = 2
    /\ Last(state.messages).tool_calls[1].name \notin tools_by_name
    /\ Last(state.messages).tool_calls[2].name \in tools_by_name
    /\ ~StartsWithError(tool_messages[2].content)

\* C12: the cleanup step attempts delete_session only when session_id is set,
\* and whatever the deletion's outcome it completes: the run goes on to END with
\* no exception and with the run state (from which the batch response's answer,
\* steps, success and error are computed) exactly as it was.
C12_CleanupSwallowsFailure ==
    [][pc = "cleanup" =>
        /\ pc' = "END"
        /\ exc' = exc
        /\ state' = state
        /\ IF Has(state, "session_id")
           THEN deleted' = Append(deleted, state.session_id)
           ELSE deleted' = deleted /\ remote' = remote]_vars

C12_Witness ==
    /\ pc = "END"
    /\ exc = ""
    /\ deleted = <<"s1">>
    /\ "s1" \in remote
    /\ hist.cleanups = 1

Front(s) == SubSeq(s, 1, Len(s) - 1)

RECURSIVE CountCalls(_)
CountCalls(msgs) ==
    IF msgs = <<>> THEN 0
    ELSE (IF Head(msgs).type = "ai" THEN Len(Head(msgs).tool_calls) ELSE 0)
         + CountCalls(Tail(msgs))

FinalTexts(msgs) == {i \in 1..Len(msgs) : msgs[i].type = "ai" /\ msgs[i].tool_calls = <<>>}

\* C13: for every message log the returned steps are numbered 1, 2, ..., k in
\* list order, k being the number of tool calls over all AI messages of the log.
C13_StepNumbersContiguous ==
    RunOver =>
        /\ Len(response[1].steps) = CountCalls(state.messages)
        /\ \A i \in 1..Len(response[1].steps) : response[1].steps[i].step_number = i

C13_Witness ==
    /\ RunOver
    /\ Len(response[1].steps) = 4
    /\ state.messages[2].type = "tool"
    /\ response[1].steps[4].step_number = 4

\* C14: a Tool message that starts with the failure marker changes exactly the
\* most recently appended step (success becomes false, "-> text" is appended to
\* its detail) and leaves every other step as it was; a Tool message without the
\* marker changes no step.
C14_FailureFlipsLastStep ==
    (RunOver /\ state.messages # <<>> /\ Last(state.messages).type = "tool") =>
        LET m == Last(state.messages)
            prev == _extract_steps(Front(state.messages))
            cur == response[1].steps
            k == Len(prev)
        IN /\ Len(cur) = k
           /\ IF StartsWithError(m.content) /\ k > 0
              THEN /\ \A i \in 1..(k - 1) : cur[i] = prev[i]
                   /\ cur[k].success = FALSE
                   /\ cur[k].detail = prev[k].detail \o <<"->">> \o m.content
                   /\ cur[k].step_number = prev[k].step_number
                   /\ cur[k].action = prev[k].action
              ELSE cur = prev

C14_Witness ==
    /\ RunOver
    /\ Len(state.messages) = 3
    /\ Last(state.messages).type = "tool"
    /\ StartsWithError(Last(state.messages).content)
    /\ Len(response[1].steps) = 3
    /\ response[1].steps[1].success
    /\ response[1].steps[2].success
    /\ ~response[1].steps[3].success

\* C15: the returned answer is the text of the last AI message of the log that
\* carries no tool calls, and it is the sentinel exactly when the log has no
\* such message.
C15_AnswerIsLastFinalText ==
    RunOver =>
        LET finals == FinalTexts(state.messages)
        IN IF finals = {}
           THEN response[1].answer = Sentinel
           ELSE /\ response[1].answer =
                     state.messages[CHOOSE i \in finals : \A j \in finals : j <= i].content
                /\ response[1].answer # Sentinel

C15_Witness ==
    /\ RunOver
    /\ Cardinality(FinalTexts(state.messages)) = 2
    /\ state.messages[1].content = <<"answer", "1">>
    /\ Last(state.messages).type = "tool"
    /\ response[1].answer = <<"answer", "2">>

EventNames(frames) == [i \in 1..Len(frames) |-> frames[i].event]

\* the external event names the event table assigns to a feed, answer_chunk
\* (optional) left out; sn is the number of tool-start events seen so far
RECURSIVE TableImage(_, _)
TableImage(evs, sn) ==
    IF evs = <<>> THEN <<>>
    ELSE LET ev == Head(evs)
             one == IF ev.event = "on_tool_start" THEN <<"step_start">>
                    ELSE IF ev.event = "on_tool_end"
                         THEN IF StartsWithError(ev.output) THEN <<"step_error">>
                              ELSE <<"step_complete">>
                    ELSE IF ev.event = "on_chat_model_start" /\ sn > 0 THEN <<"thinking">>
                    ELSE IF ev.event = "on_chain_end" /\ ev.name = "cleanup" THEN <<"cleanup">>
                    ELSE <<>>
         IN one \o TableImage(Tail(evs), IF ev.event = "on_tool_start" THEN sn + 1 ELSE sn)

CleanupCompleted == \E i \in 1..Len(feed) : feed[i] = OnChainEnd("cleanup")

IsStepFrame(f) == f.event \in {"step_start", "step_complete", "step_error"}

\* C16: while the feed is being consumed, the frames emitted so far are, in
\* order, the images of the internal events received so far (tool-start,
\* tool-end, model-start after a tool, cleanup-complete), none dropped.
C16_OneFramePerEvent ==
    (mode = "stream_query" /\ pc = "streaming") => EventNames(sse) = TableImage(feed, 0)

\* C17: a stream that ended with done after the cleanup step completed carries
\* a cleanup frame, placed after every step frame and before answer_complete.
C17_CleanupFrame ==
    (mode = "stream_query" /\ RunOver /\ Last(sse).event = "done" /\ CleanupCompleted) =>
        \E j \in 1..Len(sse) :
            /\ sse[j].event = "cleanup"
            /\ \A i \in 1..Len(sse) : IsStepFrame(sse[i]) => i < j
            /\ \A i \in 1..Len(sse) : sse[i].event \in {"answer_complete", "done"} => j < i

IsToolEvent(ev) == ev.event \in {"on_tool_start", "on_tool_end"}

IsStepOrClosing(f) == IsStepFrame(f) \/ f.event \in {"answer_complete", "done"}

EndFrame(ev) == IF StartsWithError(ev.output) THEN "step_error" ELSE "step_complete"

\* the feed holds two tool calls, the second started after the first ended
TwoSequentialCalls ==
    LET t == SelectSeq(feed, IsToolEvent)
    IN /\ Len(t) = 4
       /\ t[1].event = "on_tool_start" /\ t[2].event = "on_tool_end"
       /\ t[3].event = "on_tool_start" /\ t[4].event = "on_tool_end"

\* C18: a stream over a run with two sequential tool calls that then answers
\* carries step_start(1), step_complete(1) or step_error(1), step_start(2),
\* step_complete(2) or step_error(2), answer_complete, done in this order,
\* whether or not a model start separates the two calls; the only other frames
\* are thinking frames.
C18_TwoCallOrder ==
    (mode = "stream_query" /\ RunOver /\ exc = "" /\ TwoSequentialCalls) =>
        LET t == SelectSeq(feed, IsToolEvent)
            f == SelectSeq(sse, IsStepOrClosing)
        IN /\ Len(f) = 6
           /\ f[1].event = "step_start" /\ f[1].data.step_number = 1
           /\ f[2].event = EndFrame(t[2]) /\ f[2].data.step_number = 1
           /\ f[3].event = "step_start" /\ f[3].data.step_number = 2
           /\ f[4].event = EndFrame(t[4]) /\ f[4].data.step_number = 2
           /\ f[5].event = "answer_complete"
           /\ f[6].event = "done"
           /\ f[5] = sse[Len(sse) - 1] /\ f[6] = sse[Len(sse)]
           /\ \A i \in 1..Len(sse) : ~IsStepOrClosing(sse[i]) => sse[i].event = "thinking"

C18_Witness ==
    /\ RunOver
    /\ TwoSequentialCalls
    /\ Len(feed) = 5
    /\ feed[3] = OnChatModelStart
    /\ EventNames(sse) = <<"step_start", "step_error", "thinking", "step_start",
                           "step_complete", "answer_complete", "done">>

IsPrefix(a, b) == Len(a) <= Len(b) /\ \A i \in 1..Len(a) : a[i] = b[i]

\* every model call made so far returned a reply
ModelCallsReturned == hist.llm_calls = Len(hist.replies)

\* the backend never refused to create the session
BackendAcceptsSession == InitFailed => state.error[2] = "'agent_id'"

\* Scenario A: the model asks for navigate, then execute_js, then answers
ScenarioA == << <<"navigate">>, <<"execute_js">>, <<>> >>

\* the environment behaved as in Scenario A for as long as the run asked it to
EnvFollowsScenarioA ==
    /\ IsPrefix(hist.replies, ScenarioA)
    /\ ModelCallsReturned
    /\ hist.tool_failures = 0
    /\ exc # "validation error"
    /\ BackendAcceptsSession

\* C19: a batch run in an environment that follows Scenario A (session creation
\* accepted, navigate then execute_js requested and both succeeding, then a
\* final text) plays the whole scenario and returns success = true, two steps
\* numbered 1 and 2 that both succeeded, the final text as answer, after
\* delete_session was attempted.
C19_ScenarioA ==
    (mode = "execute_query" /\ RunOver /\ EnvFollowsScenarioA) =>
        /\ hist.replies = ScenarioA
        /\ response[1].success
        /\ Len(response[1].steps) = 2
        /\ \A i \in 1..2 : response[1].steps[i].step_number = i /\ response[1].steps[i].success
        /\ response[1].answer = Last(state.messages).content
        /\ response[1].answer # Sentinel
        /\ deleted # <<>>

ToolsEveryPass == hist.replies # <<>> /\ \A i \in 1..Len(hist.replies) : hist.replies[i] # <<>>

\* C20: a run that is over, in which every model call returned and asked for
\* tools, made at most max_iterations passes and at most as many dispatches,
\* went through cleanup once and ended without an exception; in batch mode the
\* response is the one built from the message history.
C20_CapThenCleanup ==
    (RunOver /\ ToolsEveryPass /\ ModelCallsReturned /\ exc # "validation error") =>
        /\ exc = ""
        /\ hist.cleanups = 1
        /\ Has(state, "max_iterations")
        /\ hist.passes <= state.max_iterations
        /\ hist.dispatches <= state.max_iterations
        /\ mode = "execute_query" => response = <<SuccessResponse(state.messages)>>

\* C21: session_id appears in the state only through the initialize step, as
\* the id of the session the backend just created, and once present no step
\* (agent, tools, post_process, cleanup, the caller's return) removes or
\* changes it.
C21_SessionIdSetOnce ==
    [][/\ Has(state, "session_id") =>
            Has(state', "session_id") /\ state'.session_id = state.session_id
       /\ (~Has(state, "session_id") /\ Has(state', "session_id")) =>
            /\ pc = "initialize"
            /\ state'.session_id \in remote' \ remote]_vars

C21_Witness ==
    /\ pc = "END"
    /\ Has(state, "session_id") /\ state.session_id = "s1"
    /\ Has(state, "current_page_id")
    /\ hist.dispatches >= 2
    /\ hist.cleanups = 1

CountType(msgs, t) == Cardinality({i \in 1..Len(msgs) : msgs[i].type = t})

\* C22: every step leaves the messages already in the log in place and only
\* appends; the log always holds exactly one Human message, its first entry,
\* and holds one System message when initialize obtained a session and none
\* otherwise.
C22_MessagesAppendOnly ==
    /\ [](/\ CountType(state.messages, "human") = 1
          /\ state.messages[1].type = "human"
          /\ CountType(state.messages, "system") =
                (IF Has(state, "session_id") THEN 1 ELSE 0))
    /\ [][IsPrefix(state.messages, state'.messages)]_vars

C22_Witness ==
    /\ pc = "END"
    /\ hist.passes = 3
    /\ hist.dispatches = 2
    /\ Len(state.messages) >= 7
    /\ CountType(state.messages, "system") = 1

\* the tool calls of all AI messages of a log, in order
RECURSIVE AllCalls(_)
AllCalls(msgs) ==
    IF msgs = <<>> THEN <<>>
    ELSE (IF Head(msgs).type = "ai" THEN Head(msgs).tool_calls ELSE <<>>)
         \o AllCalls(Tail(msgs))

IsToolMessage(m) == m.type = "tool"

\* C23: in a run of the graph that ended without exception, the i-th call the
\* tools step executed (the one whose correlation id the i-th Tool message
\* carries, unknown names included) is represented by the i-th extracted step:
\* steps are in dispatch order, one per executed call.
C23_OneStepPerDispatchedCall ==
    (pc = "END" /\ exc = "") =>
        LET steps == _extract_steps(state.messages)
            calls == AllCalls(state.messages)
            done == SelectSeq(state.messages, IsToolMessage)
        IN /\ Len(done) <= Len(steps)
           /\ \A i \in 1..Len(done) :
                /\ calls[i].id = done[i].tool_call_id
                /\ steps[i].step_number = i
                /\ steps[i].action = calls[i].name
                /\ IsPrefix(_format_tool_detail(calls[i].name, calls[i].args), steps[i].detail)

C23_Witness ==
    /\ pc = "END" /\ exc = ""
    /\ Len(SelectSeq(state.messages, IsToolMessage)) = 3
    /\ \E i \in 1..Len(state.messages) :
        /\ state.messages[i].type = "tool"
        /\ state.messages[i].name = "delete_session"
    /\ _extract_steps(state.messages)[3].success

\* C24: the tools step hands over to post_process only when it holds one Tool
\* message per call of the AI message, in call order and with each call's id,
\* and these are exactly the messages it appends; while calls remain, the step
\* goes on to the next call whatever the earlier results were (a failure
\* marker included), unless the tool invocation itself raises.
C24_DispatchIsJoin ==
    [][pc = "tools" =>
        LET calls == Last(state.messages).tool_calls
            n == Len(calls)
        IN /\ pc' = "post_process" =>
                /\ Len(tool_messages) = n
                /\ \A i \in 1..n : /\ tool_messages[i].type = "tool"
                                   /\ tool_messages[i].tool_call_id = calls[i].id
                /\ state'.messages = state.messages \o tool_messages
           /\ Len(tool_messages) < n =>
                \/ /\ pc' = "tools"
                   /\ Len(tool_messages') = Len(tool_messages) + 1
                   /\ SubSeq(tool_messages', 1, Len(tool_messages)) = tool_messages
                \/ pc' = "raised" /\ exc' = "validation error"
           /\ pc' \in {"tools", "post_process", "raised"}]_vars

C24_Witness ==
    /\ pc = "post_process"
    /\ LET k == Len(state.messages)
       IN /\ k >= 3
          /\ state.messages[k - 2].type = "ai"
          /\ Len(state.messages[k - 2].tool_calls) = 2
          /\ state.messages[k - 1].type = "tool"
          /\ StartsWithError(state.messages[k - 1].content)
          /\ state.messages[k].type = "tool"
          /\ ~StartsWithError(state.messages[k].content)
          /\ state.messages[k].tool_call_id = state.messages[k - 2].tool_calls[2].id

Owner(sid) == (CHOOSE i \in 1..Len(hist.created) : hist.created[i].session_id = sid)

OwnerRun(sid) == hist.created[Owner(sid)].run

\* C25: with two runs interleaved over the same client, a step changes the
\* messages, iteration_count and session_id (the whole state) of one run only,
\* a run's session_id is always a session created for that run, and every
\* delete_session a run's cleanup attempts is on the session that run created.
C25_RunsIsolated ==
    /\ [](/\ \A r \in Runs : Has(state[r], "session_id") =>
                /\ state[r].session_id \in Created
                /\ OwnerRun(state[r].session_id) = r
          /\ \A i \in 1..Len(deleted) :
                /\ deleted[i].session_id \in Created
                /\ OwnerRun(deleted[i].session_id) = deleted[i].run)
    /\ [][/\ \A r, q \in Runs :
                (r # q /\ state'[r] # state[r]) =>
                    /\ state'[q] = state[q]
                    /\ pc'[q] = pc[q]
                    /\ tool_messages'[q] = tool_messages[q]
          /\ \A sid \in remote \ remote' :
                /\ pc[OwnerRun(sid)] = "cleanup"
                /\ pc'[OwnerRun(sid)] = "END"]_vars

C25_Witness ==
    /\ \A r \in Runs : pc[r] = "done" /\ Has(state[r], "current_page_id")
    /\ Len(deleted) = 2
    /\ deleted[1] = [run |-> 2, session_id |-> "s1"]
    /\ deleted[2] = [run |-> 1, session_id |-> "s2"]
    /\ remote = {"s2"}

IsStepStart(f) == f.event = "step_start"

IsStepEnd(f) == f.event \in {"step_complete", "step_error"}

IsToolStart(ev) == ev.event = "on_tool_start"

\* C26: in the stream of a run, the step_start frames carry 1, 2, 3, ... in
\* the order they were emitted, there are as many of them as tool-start events
\* were received, and the j-th step_complete or step_error frame (the end of the
\* j-th tool invocation) carries the number and tool name of the j-th
\* step_start frame.
C26_StreamStepNumbers ==
    Streaming =>
        LET starts == SelectSeq(sse, IsStepStart)
            ends == SelectSeq(sse, IsStepEnd)
        IN /\ Len(starts) = Len(SelectSeq(feed, IsToolStart))
           /\ \A j \in 1..Len(starts) : starts[j].data.step_number = j
           /\ Len(ends) <= Len(starts)
           /\ \A j \in 1..Len(ends) :
                /\ ends[j].data.step_number = starts[j].data.step_number
                /\ ends[j].data.action = starts[j].data.action

C26_Witness ==
    /\ mode = "astream_events"
    /\ RunOver
    /\ Last(sse).event = "done"
    /\ Len(SelectSeq(sse, IsStepStart)) = 3
    /\ \E i \in 1..Len(sse) : sse[i].event = "step_error" /\ sse[i].data.step_number = 2
    /\ \E i \in 1..Len(sse) : sse[i].event = "step_complete" /\ sse[i].data.step_number = 3

\* C27: current_page_id changes only in a step of the tools node whose batch
\* holds a navigate result without the failure marker, and its new value is the
\* page id that navigate returned; failed navigate calls and calls of other
\* tools leave it as it was.
C27_PageIdOnlyFromNavigate ==
    [][Get(state', "current_page_id") # Get(state, "current_page_id") =>
        /\ pc = "tools"
        /\ \E i \in 1..Len(tool_messages) :
            /\ tool_messages[i].name = "navigate"
            /\ ~StartsWithError(tool_messages[i].content)
        /\ state'.current_page_id = <<"p1">>]_vars

\* C28: every tool of the registry, dispatched with valid arguments against a
\* backend that answers the call successfully, yields a result that does not
\* start with the failure marker.
C28_RegistryOpsExist ==
    \A i \in 1..Len(tool_messages) :
        (hist[i].outcome = "ok" /\ tool_messages[i].name \in tools_by_name)
            => ~StartsWithError(tool_messages[i].content)

\* C29: for a page of any size, with any length field in the response, the
\* text get_page_content returns carries the first TruncateAt characters of
\* the content at most, carries the whole content when that has at most
\* TruncateAt characters, and carries the truncation marker exactly when the
\* content is longer.
C29_ContentTruncated ==
    \A i \in 1..Len(tool_messages) :
        (hist[i].outcome = "ok" /\ tool_messages[i].name = "get_page_content")
            => LET text == tool_messages[i].content
                   page == hist[i].page
               IN /\ text[5] = ToString(Min(page.chars, TruncateAt))
                  /\ (Len(text) > 5) <=> (page.chars > TruncateAt)

\* C30: in a run started by execute_query or stream_query, once the model has
\* replied in a reasoning pass (the point where the exit condition is due), the
\* fields the exit condition reads with state[...] are present in the state:
\* iteration_count and max_iterations.
C30_ExitConditionFieldsDefined ==
    (mode \in {"execute_query", "stream_query"} /\ hist.replies # <<>>) =>
        /\ Has(state, "iteration_count")
        /\ Has(state, "max_iterations")

\* the positions of the Tool messages that carry the correlation id `id`
OwnToolMessages(msgs, id) ==
    {j \in 1..Len(msgs) : msgs[j].type = "tool" /\ msgs[j].tool_call_id = id}

\* C31: in the batch result of a run that ended without exception, the step of
\* a tool call has success = FALSE exactly when the Tool message carrying that
\* call's id starts with the failure marker, also when one AI message requested
\* several calls of which only some failed.
C31_FailureOnOwnStep ==
    (pc = "END" /\ exc = "") =>
        LET steps == _extract_steps(state.messages)
            calls == AllCalls(state.messages)
        IN \A i \in 1..Len(steps) :
            \A j \in OwnToolMessages(state.messages, calls[i].id) :
                steps[i].success = ~StartsWithError(state.messages[j].content)

\* C32: every step of the batch result of a run that ended without exception
\* belongs to a tool call the tools step executed (one whose id a Tool message
\* of the run carries); the calls of the last AI message of a run stopped by
\* the iteration cap yield no step.
C32_StepsOnlyForDispatchedCalls ==
    (pc = "END" /\ exc = "") =>
        LET steps == _extract_steps(state.messages)
            calls == AllCalls(state.messages)
        IN \A i \in 1..Len(steps) :
            OwnToolMessages(state.messages, calls[i].id) # {}

\* the AI messages of a run that asked for tool calls
RequestingPasses(msgs) ==
    {j \in 1..Len(msgs) : msgs[j].type = "ai" /\ msgs[j].tool_calls # <<>>}

\* text a occurs in text b as a contiguous run of tokens
Occurs(a, b) ==
    \E k \in 0..(Len(b) - Len(a)) : SubSeq(b, k + 1, k + Len(a)) = a

\* C33: when the stream of a run closes with answer_complete and done, the
\* answer that frame carries is the answer the batch extractor returns for the
\* run's messages, and it contains no text of a pass that asked for tool calls.
C33_StreamAnswerIsBatchAnswer ==
    (mode = "astream_events" /\ RunOver /\ exc = "") =>
        LET answer == sse[Len(sse) - 1].data.answer
        IN /\ sse[Len(sse) - 1].event = "answer_complete"
           /\ answer = _extract_answer(state.messages)
           /\ \A j \in RequestingPasses(state.messages) :
                state.messages[j].content # <<>> =>
                    ~Occurs(state.messages[j].content, answer)

\* the (step_number, action) pairs of a sequence of frames or of steps
StartPairs(frames) ==
    [j \in 1..Len(frames) |-> <<frames[j].data.step_number, frames[j].data.action>>]

StepPairs(steps) ==
    [j \in 1..Len(steps) |-> <<steps[j].step_number, steps[j].action>>]

\* C34: when the stream of a run closes without error, the (step_number,
\* action) pairs of its step_start frames are, in order, the pairs of the batch
\* step list of the run's messages, runs with an unknown tool name and runs
\* stopped by the iteration cap included.
C34_StreamStepsAreBatchSteps ==
    (mode = "astream_events" /\ RunOver /\ exc = "") =>
        StartPairs(SelectSeq(sse, IsStepStart)) = StepPairs(_extract_steps(state.messages))

\* C35: the session_id of the batch response built from a run that ended
\* without exception is the run state's session_id when the run acquired a
\* session, and is absent (None) only when it acquired none.
C35_ResponseSessionId ==
    (pc = "END" /\ exc = "") =>
        LET sid == SuccessResponse(state.messages).session_id
        IN IF Has(state, "session_id")
           THEN sid = <<state.session_id>>
           ELSE sid = None

\* the names of the session tools a model may ask for
SessionTools == {"create_session", "close_session", "delete_session"}

InsideGraph == pc \in {"agent", "should_continue", "tools", "post_process", "cleanup"}

\* C36: the session is created and deleted by the graph only: the set of
\* sessions alive on the backend changes only in the initialize and cleanup
\* steps and delete_session is attempted only by cleanup; a tool call named
\* create_session, close_session or delete_session is answered by the tools step
\* itself with the unknown-tool text, without starting a tool; and the session
\* the run acquired is alive in every state from initialize up to cleanup.
C36_SessionLifecycleByGraph ==
    /\ []((InsideGraph /\ Has(state, "session_id")) => remote = {state.session_id})
    /\ [][/\ remote' # remote => pc \in {"initialize", "cleanup"}
          /\ deleted' # deleted => pc = "cleanup"
          /\ (pc = "tools" /\ Len(tool_messages') > Len(tool_messages)) =>
                LET call == Last(state.messages).tool_calls[Len(tool_messages) + 1]
                IN call.name \in SessionTools =>
                    /\ Last(tool_messages').content = <<"Error", ": Unknown tool", call.name>>
                    /\ feed' = feed
                    /\ sse' = sse]_vars

C36_Witness ==
    /\ pc = "END" /\ exc = ""
    /\ \A n \in SessionTools :
        \E i \in 1..Len(state.messages) :
            state.messages[i].type = "tool" /\ state.messages[i].name = n
    /\ deleted = <<state.session_id>>
    /\ remote = {}

====
